---- MODULE Spec2Model ----
(***************************************************************************)
(* Model of r2bit_ContractAnalyzer: the credential resolver, the model     *)
(* dispatcher with its two provider calls (src/utils/llm.py), the prompt   *)
(* formatter (src/utils/prompt.py), the PDF text extraction and the        *)
(* script main that a browser session reruns (src/streamlit_app.py).       *)
(*                                                                         *)
(* A Python str is a sequence of one-character strings.  The Python value  *)
(* None is a one-element sequence whose element is not a single character, *)
(* so it is no str.                                                        *)
(***************************************************************************)
EXTENDS Naturals, Sequences, FiniteSets

VARIABLES
    environ,      \* os.environ, restricted to the two API-key variables
    dotenv_file,  \* the KEY=VALUE pairs of the .env file (None: no such pair)
    secrets,      \* st.secrets: whether it can be read, its 'default' section, its top level
    op,           \* the call made last: function name and arguments
    ret,          \* what that call gave back: [raised, val]
    io,           \* the trace of that call: functions called, accesses, clients, exceptions
    req,          \* the requests that call sent to a provider endpoint, in order
    prev,         \* op, ret, io and req of the get_api_key call made just before the last one
    session       \* st.session_state: the values the browser session keeps across reruns

vars == <<environ, dotenv_file, secrets, op, ret, io, req, prev, session>>

\* ------------------------------------------------------------------ text

None == <<"None">>

IsStr(v) == v # None

\* Python truthiness of an Optional[str]: neither None nor the empty string.
Truthy(v) == v # None /\ v # <<>>

IsPrefix(p, s) == Len(p) <= Len(s) /\ SubSeq(s, 1, Len(p)) = p

Contains(sub, s) ==
    \E i \in 0..(Len(s) - Len(sub)) : SubSeq(s, i + 1, i + Len(sub)) = sub

CountChar(c, s) == Cardinality({i \in 1..Len(s) : s[i] = c})

\* str.lower() on the letters that occur in provider names.
LowerChar(c) ==
    CASE c = "A" -> "a" [] c = "B" -> "b" [] c = "C" -> "c" [] c = "D" -> "d"
      [] c = "E" -> "e" [] c = "F" -> "f" [] c = "G" -> "g" [] c = "H" -> "h"
      [] c = "I" -> "i" [] c = "J" -> "j" [] c = "K" -> "k" [] c = "L" -> "l"
      [] c = "M" -> "m" [] c = "N" -> "n" [] c = "O" -> "o" [] c = "P" -> "p"
      [] c = "Q" -> "q" [] c = "R" -> "r" [] c = "S" -> "s" [] c = "T" -> "t"
      [] c = "U" -> "u" [] c = "V" -> "v" [] c = "W" -> "w" [] c = "X" -> "x"
      [] c = "Y" -> "y" [] c = "Z" -> "z" [] OTHER -> c

Lower(s) == [i \in 1..Len(s) |-> LowerChar(s[i])]

\* str.strip(chars): drop every leading and every trailing character that is in chars.
RECURSIVE LStrip(_, _)
LStrip(s, chars) ==
    IF s # <<>> /\ Head(s) \in chars THEN LStrip(Tail(s), chars) ELSE s

RECURSIVE RStrip(_, _)
RStrip(s, chars) ==
    IF s # <<>> /\ s[Len(s)] \in chars THEN RStrip(SubSeq(s, 1, Len(s) - 1), chars) ELSE s

Strip(s, chars) == RStrip(LStrip(s, chars), chars)

QuoteChars == {"\"", "'"}

Whitespace == {" ", "\n", "\t"}

S_openai ==
    <<"o","p","e","n","a","i">>
S_anthropic ==
    <<"a","n","t","h","r","o","p","i","c">>

\* ------------------------------------------------ get_api_key (utils/llm.py)

EnvVars == {"OPENAI_API_KEY", "ANTHROPIC_API_KEY"}

\* The variable a provider name selects (llm.py:51-55); None for an unknown provider.
KeyVar(provider) ==
    IF Lower(provider) = S_openai THEN "OPENAI_API_KEY"
    ELSE IF Lower(provider) = S_anthropic THEN "ANTHROPIC_API_KEY"
    ELSE "none"

\* key.strip of both quote characters (llm.py:64, 85, 98)
StripQuotes(key) == Strip(key, QuoteChars)

\* load_dotenv(): every pair of the .env file whose variable is not yet in the
\* environment is added to it; a variable that is already there keeps its value.
load_dotenv(env, file) ==
    [v \in EnvVars |-> IF env[v] = None /\ file[v] # None THEN file[v] ELSE env[v]]

\* st.secrets.get('default', {}).get(VAR) or st.secrets.get(VAR), with the reads it makes.
\* Reading st.secrets raises when there is no secrets file.
SecretsLookup_TopFirst(sec, var) ==
    IF ~sec.readable
    THEN [raised |-> TRUE, val |-> None, io |-> <<"secrets.default">>]
    ELSE IF Truthy(sec.top[var])
    THEN [raised |-> FALSE, val |-> sec.top[var], io |-> <<"secrets.top">>]
    ELSE [raised |-> FALSE, val |-> sec.default[var],
          io |-> <<"secrets.top", "secrets.default">>]

SecretsLookup(sec, var) ==
    IF ~sec.readable
    THEN [raised |-> TRUE, val |-> None, io |-> <<"secrets.default">>]
    ELSE IF Truthy(sec.default[var])
    THEN [raised |-> FALSE, val |-> sec.default[var], io |-> <<"secrets.default">>]
    ELSE [raised |-> FALSE, val |-> sec.top[var],
          io |-> <<"secrets.default", "secrets.top">>]

\* Lines 87-106: the secrets store as the last resort, inside its own try/except.
SecretsStep(sec, var, env, sofar) ==
    LET s == SecretsLookup(sec, var)
    IN  IF ~s.raised /\ Truthy(s.val)
        THEN [raised |-> FALSE, val |-> StripQuotes(s.val), environ |-> env,
              io |-> sofar \o s.io]
        ELSE [raised |-> FALSE, val |-> <<>>, environ |-> env, io |-> sofar \o s.io]

\* Lines 67-106: reached when the environment variable holds nothing.
AfterEnvMiss(provider, env, file, sec) ==
    LET var  == KeyVar(provider)
        env2 == load_dotenv(env, file)
        seen == <<"environ", "load_dotenv", "environ">>
    IN  IF Truthy(env2[var])
        THEN [raised |-> FALSE, val |-> StripQuotes(env2[var]), environ |-> env2,
              io |-> seen]
        ELSE SecretsStep(sec, var, env2, seen)

\* Lines 49-106, the body of the outer try.  provider.lower() raises AttributeError
\* for a provider that is no str.
get_api_key_body_EagerDotenv(provider, env, file, sec) ==
    IF ~IsStr(provider)
    THEN [raised |-> TRUE, val |-> None, environ |-> env, io |-> <<>>]
    ELSE IF KeyVar(provider) = "none"
    THEN [raised |-> FALSE, val |-> <<>>, environ |-> env, io |-> <<>>]
    ELSE AfterEnvMiss(provider, env, file, sec)

get_api_key_body(provider, env, file, sec) ==
    IF ~IsStr(provider)
    THEN [raised |-> TRUE, val |-> None, environ |-> env, io |-> <<>>]
    ELSE IF KeyVar(provider) = "none"
    THEN [raised |-> FALSE, val |-> <<>>, environ |-> env, io |-> <<>>]
    ELSE IF Truthy(env[KeyVar(provider)])
    THEN [raised |-> FALSE, val |-> StripQuotes(env[KeyVar(provider)]), environ |-> env,
          io |-> <<"environ">>]
    ELSE AfterEnvMiss(provider, env, file, sec)

\* Lines 48-112: any exception of the body becomes the empty string.
get_api_key_NoExcept(provider, env, file, sec) ==
    get_api_key_body(provider, env, file, sec)

get_api_key(provider, env, file, sec) ==
    LET r == get_api_key_body(provider, env, file, sec)
    IN  IF r.raised THEN [r EXCEPT !.raised = FALSE, !.val = <<>>] ELSE r

\* --------------------------------- call_llm_api and the provider calls (utils/llm.py)

S_gpt ==
    <<"g","p","t">>
S_claude ==
    <<"c","l","a","u","d","e">>
OPENAI_KEY_ERROR_MSG ==
    <<"O","p","e","n","A","I"," ","A","P","I"," ","k","e","y"," ","n","o","t"," ","f","o","u",
    "n","d","."," ","P","l","e","a","s","e"," ","s","e","t"," ","i","t"," ","i","n"," ",".","s",
    "t","r","e","a","m","l","i","t","/","s","e","c","r","e","t","s",".","t","o","m","l"," ","o",
    "r"," ",".","e","n","v"," ","f","i","l","e",".">>
ANTHROPIC_KEY_ERROR ==
    <<"E","r","r","o","r",":"," ","A","n","t","h","r","o","p","i","c"," ","A","P","I"," ","k",
    "e","y"," ","n","o","t"," ","f","o","u","n","d","."," ","P","l","e","a","s","e"," ","a","d",
    "d"," ","i","t"," ","t","o"," ","y","o","u","r"," ",".","s","t","r","e","a","m","l","i","t",
    "/","s","e","c","r","e","t","s",".","t","o","m","l"," ","f","i","l","e",".">>
NO_CONTENT_ERROR ==
    <<"E","r","r","o","r",":"," ","N","o"," ","r","e","s","p","o","n","s","e"," ","c","o","n",
    "t","e","n","t"," ","f","r","o","m"," ","t","h","e"," ","m","o","d","e","l",".">>
S_ErrorColon ==
    <<"E","r","r","o","r",":"," ">>
S_OpenAIApiError ==
    <<"O","p","e","n","A","I"," ","A","P","I"," ","e","r","r","o","r",":"," ">>
S_AnthropicApiError ==
    <<"A","n","t","h","r","o","p","i","c"," ","A","P","I"," ","e","r","r","o","r",":"," ">>
S_ErrorCallingLlm ==
    <<"E","r","r","o","r"," ","c","a","l","l","i","n","g"," ","L","L","M"," ","A","P","I",":",
    " ">>
S_UnsupportedModel ==
    <<"E","r","r","o","r",":"," ","U","n","s","u","p","p","o","r","t","e","d"," ","m","o","d",
    "e","l"," ","'">>
NAME_ERROR_MSG ==
    <<"n","a","m","e"," ","'","a","n","t","h","r","o","p","i","c","'"," ","i","s"," ","n","o",
    "t"," ","d","e","f","i","n","e","d">>
ATTRIBUTE_ERROR_MSG ==
    <<"'","N","o","n","e","T","y","p","e","'"," ","o","b","j","e","c","t"," ","h","a","s"," ",
    "n","o"," ","a","t","t","r","i","b","u","t","e"," ","'","s","t","a","r","t","s","w","i","t",
    "h","'">>
INDEX_ERROR_MSG ==
    <<"l","i","s","t"," ","i","n","d","e","x"," ","o","u","t"," ","o","f"," ","r","a","n","g",
    "e">>
SYSTEM_MESSAGE ==
    <<"Y","o","u"," ","a","r","e"," ","a"," ","h","e","l","p","f","u","l"," ","a","s","s","i",
    "s","t","a","n","t"," ","t","h","a","t"," ","a","n","a","l","y","z","e","s"," ","c","o","n",
    "t","r","a","c","t","s",".">>

\* llm.py:12-20 imports openai and OpenAI only; the comment at line 20 promises a
\* conditional import of anthropic that no line of the module performs, so the global
\* name anthropic is unbound when _call_anthropic reaches line 275.
anthropic_imported == FALSE

\* content.strip(): whitespace off both ends (llm.py:231).
StripWS(s) == Strip(s, Whitespace)

\* The result of a function call: whether an exception left the function, the value
\* returned (or the exception's message), the environment afterwards, the trace of the
\* call (external accesses, clients constructed, exceptions raised) and the requests sent.
Returned(val, k, acc, sent) ==
    [raised |-> FALSE, val |-> val, environ |-> k.environ, io |-> k.io \o acc, req |-> sent]

Raised(msg, k, acc, sent) ==
    [raised |-> TRUE, val |-> msg, environ |-> k.environ, io |-> k.io \o acc, req |-> sent]

\* The request of llm.py:212-223.
OpenAIRequest(a) ==
    [endpoint    |-> "chat.completions.create",
     model       |-> a.model,
     messages    |-> <<[role |-> "system", content |-> SYSTEM_MESSAGE],
                       [role |-> "user", content |-> a.prompt]>>,
     temperature |-> a.temperature,
     max_tokens  |-> a.max_tokens,
     kwargs      |-> a.kwargs]

\* The request of llm.py:280-289.
AnthropicRequest(a) ==
    [endpoint    |-> "messages.create",
     model       |-> a.model,
     messages    |-> <<[role |-> "user", content |-> a.prompt]>>,
     temperature |-> a.temperature,
     max_tokens  |-> a.max_tokens,
     kwargs      |-> a.kwargs]

\* llm.py:225-231: what _call_openai makes of a response that arrived.
OpenAIResult_Untrimmed(texts) ==
    IF texts = <<>> \/ ~Truthy(texts[1]) THEN NO_CONTENT_ERROR ELSE texts[1]

OpenAIResult(texts) ==
    IF texts = <<>> \/ ~Truthy(texts[1]) THEN NO_CONTENT_ERROR ELSE StripWS(texts[1])

\* llm.py:197-237.  a: the arguments; w: the environment, the .env file, the secrets
\* store and how the provider answers a request (w.beh).
call_openai_KeyUnchecked(a, w) ==
    LET k   == get_api_key(S_openai, w.environ, w.dotenv_file, w.secrets)
        acc == <<"OpenAI", "chat.completions.create">>
        rq  == <<OpenAIRequest(a)>>
    IN  IF w.beh.raises
        THEN Returned(S_ErrorColon \o S_OpenAIApiError \o w.beh.msg, k,
                      acc \o <<"request raised">>, rq)
        ELSE Returned(OpenAIResult(w.beh.texts), k, acc, rq)

call_openai(a, w) ==
    LET k   == get_api_key(S_openai, w.environ, w.dotenv_file, w.secrets)
        acc == <<"OpenAI", "chat.completions.create">>
        rq  == <<OpenAIRequest(a)>>
    IN  IF ~Truthy(k.val)
        THEN Returned(S_ErrorColon \o OPENAI_KEY_ERROR_MSG, k, <<>>, <<>>)
        ELSE IF w.beh.raises
        THEN Returned(S_ErrorColon \o S_OpenAIApiError \o w.beh.msg, k,
                      acc \o <<"request raised">>, rq)
        ELSE Returned(OpenAIResult(w.beh.texts), k, acc, rq)

\* llm.py:290-296, reached only with the name anthropic bound: the first content
\* block's text, or the exception of the request or of the indexing as text.
AnthropicResult(beh) ==
    IF beh.raises THEN S_AnthropicApiError \o beh.msg
    ELSE IF beh.texts = <<>> THEN S_AnthropicApiError \o INDEX_ERROR_MSG
    ELSE beh.texts[1]

AnthropicEvents(beh) ==
    IF beh.raises THEN <<"Anthropic", "messages.create", "request raised">>
    ELSE IF beh.texts = <<>> THEN <<"Anthropic", "messages.create", "IndexError">>
    ELSE <<"Anthropic", "messages.create">>

\* llm.py:268-296.  Line 275 is outside the try of line 277: its NameError leaves
\* the function.
call_anthropic(a, w) ==
    LET k   == get_api_key(S_anthropic, w.environ, w.dotenv_file, w.secrets)
        rq  == <<AnthropicRequest(a)>>
    IN  IF ~Truthy(k.val)
        THEN Returned(ANTHROPIC_KEY_ERROR, k, <<>>, <<>>)
        ELSE IF ~anthropic_imported
        THEN Raised(NAME_ERROR_MSG, k, <<"NameError">>, <<>>)
        ELSE Returned(AnthropicResult(w.beh), k, AnthropicEvents(w.beh), rq)

\* llm.py:150-161, the body of the try.  model.startswith raises AttributeError for a
\* model that is no str.
NoKey(w) == [environ |-> w.environ, io |-> <<>>]

\* The call of function fn that gave r: the trace of the caller notes the call first.
Enter(fn, r) == [r EXCEPT !.io = <<fn>> \o @]

call_llm_api_body_CredentialFirst(a, w) ==
    IF ~IsStr(a.model) THEN Raised(ATTRIBUTE_ERROR_MSG, NoKey(w), <<"AttributeError">>, <<>>)
    ELSE IF IsPrefix(S_claude, a.model) THEN Enter("_call_anthropic", call_anthropic(a, w))
    ELSE LET r == call_openai(a, w)
         IN  IF IsPrefix(S_gpt, a.model) THEN Enter("_call_openai", r)
             ELSE [r EXCEPT !.val = S_UnsupportedModel \o a.model \o <<"'">>, !.req = <<>>]

\* The prefix tests made on the model identifier without regard to case.
call_llm_api_body_AnyCase(a, w) ==
    IF ~IsStr(a.model) THEN Raised(ATTRIBUTE_ERROR_MSG, NoKey(w), <<"AttributeError">>, <<>>)
    ELSE IF IsPrefix(S_gpt, Lower(a.model)) THEN Enter("_call_openai", call_openai(a, w))
    ELSE IF IsPrefix(S_claude, Lower(a.model))
    THEN Enter("_call_anthropic", call_anthropic(a, w))
    ELSE Returned(S_UnsupportedModel \o a.model \o <<"'">>, NoKey(w), <<>>, <<>>)

call_llm_api_body(a, w) ==
    IF ~IsStr(a.model) THEN Raised(ATTRIBUTE_ERROR_MSG, NoKey(w), <<"AttributeError">>, <<>>)
    ELSE IF IsPrefix(S_gpt, a.model) THEN Enter("_call_openai", call_openai(a, w))
    ELSE IF IsPrefix(S_claude, a.model) THEN Enter("_call_anthropic", call_anthropic(a, w))
    ELSE Returned(S_UnsupportedModel \o a.model \o <<"'">>, NoKey(w), <<>>, <<>>)

\* llm.py:149-166: an exception of the body becomes an error text.
ExceptText_Lowercase(msg) == <<"e", "r", "r", "o", "r", ":", " ">> \o msg

ExceptText(msg) == S_ErrorCallingLlm \o msg

call_llm_api_Propagates(a, w) == call_llm_api_body(a, w)

call_llm_api(a, w) ==
    LET r == call_llm_api_body(a, w)
    IN  IF r.raised THEN [r EXCEPT !.raised = FALSE, !.val = ExceptText(r.val)] ELSE r

\* ------------------------------------------------------------ the state

NoCall == [fn |-> "none"]

\* st.session_state of a session whose script has not run yet: no key is set.
NoSession == [k \in {} |-> None]

NoPrev == [op |-> NoCall, ret |-> [raised |-> FALSE, val |-> None], io |-> <<>>, req |-> <<>>]

Last == [op |-> op, ret |-> ret, io |-> io, req |-> req]

\* What an API-key variable of the process environment may hold at start.
EnvValues == {None, <<>>, <<"\"", "e", "'", "1", "'">>, <<"\"", "\"">>}

\* What a pair of the .env file may give a variable.
FileValues == {None, <<>>, <<"f", "\"", "2">>}

\* What the secrets store may hold for a variable, in its 'default' section and at its top level.
DefaultValues == {None, <<>>, <<"'", "d", "3", "'">>}

TopValues == {None, <<"t", "4", "\"">>}

SecretsStores ==
    {[readable |-> FALSE, default |-> [v \in EnvVars |-> None], top |-> [v \in EnvVars |-> None]]}
    \cup [readable : {TRUE}, default : [EnvVars -> DefaultValues], top : [EnvVars -> TopValues]]

\* Provider names a caller may pass: both recognised names one in another casing, an unknown
\* name and a value that is no str.
Providers ==
    {S_openai, <<"O", "p", "e", "n", "A", "I">>, S_anthropic, <<"a", "z", "u", "r", "e">>, None}

InitCalls ==
    /\ op = NoCall
    /\ ret = [raised |-> FALSE, val |-> None]
    /\ io = <<>>
    /\ req = <<>>
    /\ prev = NoPrev
    /\ session = NoSession

\* The sources of one API-key variable are enumerated in full; the other variable is
\* either absent everywhere or present in the environment or in the .env file.
OtherValues == {None, <<"o", "5">>}

InitKey ==
    /\ \E focus \in EnvVars :
          /\ environ \in {e \in [EnvVars -> EnvValues \cup OtherValues] :
                            \A v \in EnvVars :
                                e[v] \in (IF v = focus THEN EnvValues ELSE OtherValues)}
          /\ dotenv_file \in {f \in [EnvVars -> FileValues \cup OtherValues] :
                                \A v \in EnvVars :
                                    f[v] \in (IF v = focus THEN FileValues ELSE OtherValues)}
          /\ secrets \in {s \in SecretsStores :
                            \A v \in EnvVars : v # focus => s.default[v] = None /\ s.top[v] = None}
    /\ InitCalls

\* A call get_api_key(provider).
GetApiKey(provider) ==
    LET r == get_api_key(provider, environ, dotenv_file, secrets)
    IN  /\ op' = [fn |-> "get_api_key", provider |-> provider, environ |-> environ]
        /\ ret' = [raised |-> r.raised, val |-> r.val]
        /\ io' = r.io
        /\ req' = <<>>
        /\ environ' = r.environ
        /\ prev' = IF op.fn = "get_api_key" THEN Last ELSE NoPrev
        /\ UNCHANGED <<dotenv_file, secrets, session>>

NextKey == \E provider \in Providers : GetApiKey(provider)

SpecKey == InitKey /\ [][NextKey]_vars

\* ------------------------------------------------- calls of the dispatcher

GptModel == <<"g", "p", "t", "-", "4", "o">>

ClaudeModel == <<"c", "l", "a", "u", "d", "e", "-", "3">>

\* Model identifiers a caller may pass: with the gpt prefix, with the claude prefix,
\* near misses of both (shorter, other casing, leading blank), others, and no str.
Models ==
    {GptModel, S_gpt, <<"g", "p">>, <<"G", "P", "T", "-", "4">>,
     <<" ", "g", "p", "t">>, ClaudeModel,
     <<"c", "l", "a", "u", "d">>, <<"C", "l", "a", "u", "d", "e">>,
     <<"l", "l", "a", "m", "a">>, <<>>, None}

\* Prompt, temperature (in tenths), token ceiling and extra options of a call.
CallShapes ==
    {[prompt |-> <<"p">>, temperature |-> 0, max_tokens |-> 2000, kwargs |-> {}],
     [prompt |-> <<>>, temperature |-> 7, max_tokens |-> 16,
      kwargs |-> {[name |-> "top_p", value |-> 1]}]}

Args(models) ==
    {[prompt |-> s.prompt, model |-> m, temperature |-> s.temperature,
      max_tokens |-> s.max_tokens, kwargs |-> s.kwargs] : s \in CallShapes, m \in models}

\* The text of a first choice or first content block.
Contents == {None, <<>>, <<" ">>, <<" ", "o", "k", "\n">>, <<"o", "k">>}

\* At most this many choices or blocks follow the first one.
MaxExtra == 1

Filler(n) == [i \in 1..n |-> <<"x">>]

Responses ==
    {<<>>} \cup {<<c>> : c \in Contents}
    \cup {<<<<" ", "o", "k", "\n">>>> \o Filler(n) : n \in 1..MaxExtra}

\* How the provider answers one request: it raises with a message, or it responds.
Behaviours ==
    [raises : {TRUE}, msg : {<<"b", "o", "o", "m">>, <<>>}, texts : {<<>>}]
    \cup [raises : {FALSE}, msg : {<<>>}, texts : Responses]

World(beh) ==
    [environ |-> environ, dotenv_file |-> dotenv_file, secrets |-> secrets, beh |-> beh]

InitLlm ==
    /\ environ \in [EnvVars -> {None, <<"s", "k">>}] \cup {[v \in EnvVars |-> <<"\"", "\"">>]}
    /\ dotenv_file \in {[v \in EnvVars |-> None], [v \in EnvVars |-> <<"f">>]}
    /\ secrets \in {s \in SecretsStores : ~s.readable}
    /\ InitCalls

Record(fn, a, beh, r) ==
    /\ op' = [fn |-> fn, args |-> a, beh |-> beh, environ |-> environ]
    /\ ret' = [raised |-> r.raised, val |-> r.val]
    /\ io' = r.io
    /\ req' = r.req
    /\ environ' = r.environ
    /\ prev' = NoPrev
    /\ UNCHANGED <<dotenv_file, secrets, session>>

\* A call call_llm_api(prompt, model, temperature, max_tokens, **kwargs).
CallLlmApi(a, beh) == Record("call_llm_api", a, beh, call_llm_api(a, World(beh)))

\* A call of _call_openai itself.
CallOpenai(a, beh) == Record("_call_openai", a, beh, call_openai(a, World(beh)))

\* A call of _call_anthropic itself.
CallAnthropic(a, beh) == Record("_call_anthropic", a, beh, call_anthropic(a, World(beh)))

NextLlm ==
    \/ \E a \in Args(Models), beh \in Behaviours : CallLlmApi(a, beh)
    \/ \E a \in Args({GptModel}), beh \in Behaviours : CallOpenai(a, beh)
    \/ \E a \in Args({ClaudeModel}), beh \in Behaviours : CallAnthropic(a, beh)

SpecLlm == InitLlm /\ [][NextLlm]_vars

\* ------------------------------------------------- claims on get_api_key

\* The state follows a call get_api_key(provider) with a recognised provider name.
KeyCall(c) == c.op.fn = "get_api_key"

Recognised(provider) == IsStr(provider) /\ KeyVar(provider) # "none"

\* t is s without its leading and its trailing quote characters.
IsQuoteStripped(s, t) ==
    \E a, b \in 0..Len(s) :
        /\ a + b <= Len(s)
        /\ \A k \in 1..a : s[k] \in QuoteChars
        /\ \A k \in (Len(s) - b + 1)..Len(s) : s[k] \in QuoteChars
        /\ t = SubSeq(s, a + 1, Len(s) - b)
        /\ t # <<>> => t[1] \notin QuoteChars /\ t[Len(t)] \notin QuoteChars

\* The four sources of variable var, as they stood when the call began.
Source1(c, var) == c.op.environ[var]

Source2(c, var) ==
    IF c.op.environ[var] # None THEN c.op.environ[var] ELSE dotenv_file[var]

Source3(var) == IF secrets.readable THEN secrets.default[var] ELSE None

Source4(var) == IF secrets.readable THEN secrets.top[var] ELSE None

IoEnv == <<"environ">>

IoDotenv == <<"environ", "load_dotenv", "environ">>

IoDefault == <<"environ", "load_dotenv", "environ", "secrets.default">>

IoTop == <<"environ", "load_dotenv", "environ", "secrets.default", "secrets.top">>

\* C3: for a recognised provider, get_api_key returns the value of the first of
\* (1) the environment variable, (2) the environment variable after loading .env,
\* (3) the secrets 'default' section, (4) the secrets top level that holds a non-empty
\* value, with the wrapping quote characters stripped from both ends, and it consults
\* no source after the one that yielded the value.
C3_FirstSourceWins ==
    (KeyCall(Last) /\ Recognised(op.provider)) =>
        LET var == KeyVar(op.provider)
            s1  == Source1(Last, var)
            s2  == Source2(Last, var)
            s3  == Source3(var)
            s4  == Source4(var)
        IN  /\ Truthy(s1) => IsQuoteStripped(s1, ret.val) /\ io = IoEnv
            /\ (~Truthy(s1) /\ Truthy(s2)) => IsQuoteStripped(s2, ret.val) /\ io = IoDotenv
            /\ (~Truthy(s1) /\ ~Truthy(s2) /\ Truthy(s3)) =>
                   IsQuoteStripped(s3, ret.val) /\ io = IoDefault
            /\ (~Truthy(s1) /\ ~Truthy(s2) /\ ~Truthy(s3) /\ Truthy(s4)) =>
                   IsQuoteStripped(s4, ret.val) /\ io = IoTop

\* C3 witness: the environment and .env hold nothing, the 'default' section holds the
\* empty string, and the call returned the top-level secret without its trailing quote.
C3_Witness ==
    /\ KeyCall(Last) /\ Recognised(op.provider)
    /\ Source1(Last, KeyVar(op.provider)) = None
    /\ Source2(Last, KeyVar(op.provider)) = <<>>
    /\ Source3(KeyVar(op.provider)) = <<>>
    /\ Source4(KeyVar(op.provider)) = <<"t", "4", "\"">>
    /\ ret.val = <<"t", "4">>
    /\ io = IoTop

\* C4: get_api_key never raises; for an unrecognised provider name it returns empty at
\* once, without loading .env or reading the secrets store; for a recognised provider
\* with nothing in the environment, in .env and in the secrets store (also when reading
\* the store raises) it returns empty; with only the 'default' section populated it
\* returns that section's value (quote-stripped, as every returned value is).
C4_EmptyNeverRaises ==
    KeyCall(Last) =>
        /\ ~ret.raised
        /\ ~Recognised(op.provider) =>
               ret.val = <<>> /\ io = <<>> /\ environ = op.environ
        /\ Recognised(op.provider) =>
               LET var  == KeyVar(op.provider)
                   none == ~Truthy(Source1(Last, var)) /\ ~Truthy(Source2(Last, var))
               IN  /\ (none /\ ~Truthy(Source3(var)) /\ ~Truthy(Source4(var))) =>
                          ret.val = <<>>
                   /\ (none /\ ~secrets.readable) => ret.val = <<>>
                   /\ (none /\ Truthy(Source3(var)) /\ ~Truthy(Source4(var))) =>
                          IsQuoteStripped(Source3(var), ret.val) /\ ret.val # <<>>

\* C4 witness: a recognised provider, nothing in the environment or .env, and a secrets
\* store that raised when read; the call returned the empty string.
C4_Witness ==
    /\ KeyCall(Last) /\ Recognised(op.provider)
    /\ ~Truthy(Source1(Last, KeyVar(op.provider)))
    /\ ~Truthy(Source2(Last, KeyVar(op.provider)))
    /\ ~secrets.readable
    /\ io = IoDefault
    /\ ret = [raised |-> FALSE, val |-> <<>>]

\* Two calls in succession for the same recognised provider.
TwoCalls ==
    /\ KeyCall(Last) /\ KeyCall(prev)
    /\ op.provider = prev.op.provider
    /\ Recognised(op.provider)

NoLookupBeyondEnv ==
    /\ ret = prev.ret
    /\ io = IoEnv /\ prev.io = IoEnv
    /\ environ = op.environ /\ op.environ = prev.op.environ

\* C5 as stated: two calls in succession for a provider whose environment variable is
\* set return the identical value, and neither loads .env, reads the secrets store or
\* changes the environment.
C5_AsStated ==
    (TwoCalls /\ prev.op.environ[KeyVar(op.provider)] # None) => NoLookupBeyondEnv

\* C5 amended: the same, for an environment variable that holds a non-empty value.
C5_Idempotent ==
    (TwoCalls /\ Truthy(prev.op.environ[KeyVar(op.provider)])) => NoLookupBeyondEnv

\* C5 witness: two calls for openai, with a quoted value in OPENAI_API_KEY, both
\* returned the value without its wrapping quotes, from the environment alone.
C5_Witness ==
    /\ TwoCalls
    /\ op.provider = S_openai
    /\ prev.op.environ["OPENAI_API_KEY"] = <<"\"", "e", "'", "1", "'">>
    /\ ret.val = <<"e", "'", "1">> /\ prev.ret.val = <<"e", "'", "1">>

\* ------------------------------------- claims on call_llm_api and the provider calls

Dispatched == op.fn = "call_llm_api"

HasPrefixGpt == IsStr(op.args.model) /\ IsPrefix(<<"g", "p", "t">>, op.args.model)

HasPrefixClaude ==
    IsStr(op.args.model) /\ IsPrefix(<<"c", "l", "a", "u", "d", "e">>, op.args.model)

\* The last call ran the OpenAI-shaped (resp. Anthropic-shaped) provider call.
RanOpenai == op.fn = "_call_openai" \/ (Dispatched /\ HasPrefixGpt)

RanAnthropic == op.fn = "_call_anthropic" \/ (Dispatched /\ HasPrefixClaude)

InTrace(e) == \E i \in 1..Len(io) : io[i] = e

\* An exception was raised while the call ran: by model.startswith, by the provider
\* call itself, or by the request.
SomethingRaised ==
    InTrace("AttributeError") \/ InTrace("NameError") \/ InTrace("request raised")
    \/ InTrace("IndexError")

ErrorWord == <<"E", "r", "r", "o", "r">>

\* C1: call_llm_api never propagates an exception: whatever the prompt, the model
\* identifier (a str or not), the credentials and the provider's behaviour, it returns
\* a text, and when something raised on the way that text contains the word Error.
C1_NeverPropagates ==
    Dispatched =>
        /\ ~ret.raised
        /\ IsStr(ret.val)
        /\ SomethingRaised => Contains(ErrorWord, ret.val)

\* C1 witness: a claude model with a credential; the provider call raised (the name
\* anthropic is unbound) and the dispatcher returned the exception as error text.
C1_Witness ==
    /\ Dispatched /\ HasPrefixClaude
    /\ InTrace("NameError")
    /\ ~ret.raised
    /\ IsPrefix(<<"E", "r", "r", "o", "r", " ", "c", "a", "l", "l", "i", "n", "g">>, ret.val)

UnsupportedText(model) ==
    <<"E", "r", "r", "o", "r", ":", " ", "U", "n", "s", "u", "p", "p", "o", "r", "t", "e",
      "d", " ", "m", "o", "d", "e", "l", " ", "'">> \o model \o <<"'">>

UnsupportedWords ==
    <<"U", "n", "s", "u", "p", "p", "o", "r", "t", "e", "d", " ", "m", "o", "d", "e", "l">>

\* C2: for a model identifier (a str) that starts with neither gpt nor claude,
\* call_llm_api returns Error: Unsupported model '<identifier>' and resolves no
\* credential, constructs no client and sends no request.
C2_UnsupportedModel ==
    (Dispatched /\ IsStr(op.args.model) /\ ~HasPrefixGpt /\ ~HasPrefixClaude) =>
        /\ ret = [raised |-> FALSE, val |-> UnsupportedText(op.args.model)]
        /\ Contains(UnsupportedWords, ret.val)
        /\ io = <<>>
        /\ req = <<>>
        /\ environ = op.environ

\* C2 witness: the identifier GPT-4 (the prefix test is case-sensitive) was refused,
\* although a credential for OpenAI was in the environment.
C2_Witness ==
    /\ Dispatched
    /\ op.args.model = <<"G", "P", "T", "-", "4">>
    /\ Truthy(op.environ["OPENAI_API_KEY"])
    /\ Contains(UnsupportedWords, ret.val)
    /\ io = <<>> /\ req = <<>>

\* The first source of variable var that holds a non-empty value, as the call began.
FirstSource(var) ==
    IF Truthy(Source1(Last, var)) THEN Source1(Last, var)
    ELSE IF Truthy(Source2(Last, var)) THEN Source2(Last, var)
    ELSE IF Truthy(Source3(var)) THEN Source3(var)
    ELSE IF Truthy(Source4(var)) THEN Source4(var)
    ELSE <<>>

\* get_api_key yields the empty string for var: no source holds a value, or the value
\* of the first one that does consists of quote characters only.
EmptyCredential(var) == \A i \in 1..Len(FirstSource(var)) : FirstSource(var)[i] \in QuoteChars

NoClientNoRequest ==
    /\ req = <<>>
    /\ \A i \in 1..Len(io) :
          io[i] \in {"_call_openai", "_call_anthropic",
                     "environ", "load_dotenv", "secrets.default", "secrets.top"}

\* C6: when get_api_key yields an empty credential, the OpenAI-shaped call and the
\* Anthropic-shaped call each return an error text at once: no client is constructed
\* and no request is sent.
C6_NoCredentialNoRequest ==
    /\ (RanOpenai /\ EmptyCredential("OPENAI_API_KEY")) =>
           ~ret.raised /\ IsPrefix(ErrorWord, ret.val) /\ NoClientNoRequest
    /\ (RanAnthropic /\ EmptyCredential("ANTHROPIC_API_KEY")) =>
           ~ret.raised /\ IsPrefix(ErrorWord, ret.val) /\ NoClientNoRequest

\* C6 witness: _call_openai with OPENAI_API_KEY holding two quote characters only;
\* the credential strips to nothing and the call returned its key-not-found text.
C6_Witness ==
    /\ op.fn = "_call_openai"
    /\ op.environ["OPENAI_API_KEY"] = <<"\"", "\"">>
    /\ ~op.beh.raises /\ op.beh.texts # <<>>
    /\ IsPrefix(<<"E", "r", "r", "o", "r", ":", " ", "O", "p", "e", "n", "A", "I">>, ret.val)
    /\ io = <<"environ">> /\ req = <<>>

\* The failure outcomes of a dispatched call.
MissingCredential ==
    \/ HasPrefixGpt /\ EmptyCredential("OPENAI_API_KEY")
    \/ HasPrefixClaude /\ EmptyCredential("ANTHROPIC_API_KEY")

UnsupportedModel == ~HasPrefixGpt /\ ~HasPrefixClaude

EmptyResponse ==
    /\ req # <<>>
    /\ ~op.beh.raises
    /\ op.beh.texts = <<>> \/ ~Truthy(op.beh.texts[1])

\* C7: every failure outcome of call_llm_api (missing credential, unsupported model,
\* an exception of the provider call, a response without choices or with an empty first
\* text), for either provider, is a text that begins with Error.
C7_FailuresStartWithError ==
    (Dispatched /\ (MissingCredential \/ UnsupportedModel \/ SomethingRaised \/ EmptyResponse))
        => ~ret.raised /\ IsPrefix(ErrorWord, ret.val)

\* C7 witness: a gpt model with a credential; the request was sent and answered with a
\* first choice whose text is None, and the call returned its no-content error text.
C7_Witness ==
    /\ Dispatched /\ HasPrefixGpt
    /\ Len(req) = 1
    /\ ~op.beh.raises /\ op.beh.texts = <<None>>
    /\ IsPrefix(ErrorWord, ret.val)
    /\ Contains(<<"N", "o", " ", "r", "e", "s", "p", "o", "n", "s", "e">>, ret.val)

\* ------------------------------------------------ format_prompt (utils/prompt.py)

N_content ==
    <<"c","o","n","t","e","n","t">>
N_custom_query ==
    <<"c","u","s","t","o","m","_","q","u","e","r","y">>
N_instructions ==
    <<"i","n","s","t","r","u","c","t","i","o","n","s">>
FALLBACK_TEMPLATE ==
    <<"P","l","e","a","s","e"," ","a","n","a","l","y","z","e"," ","t","h","e"," ","f","o","l",
    "l","o","w","i","n","g"," ","c","o","n","t","r","a","c","t",":"," ","{","c","o","n","t","e",
    "n","t","}">>
TEMPLATE_IMOVEIS ==
    <<"\n"," "," "," "," "," "," "," ","\n"," "," "," "," "," "," "," ","{","i","n","s","t","r",
    "u","c","t","i","o","n","s","}","\n","\n"," "," "," "," "," "," "," ","G","a","r","a","n",
    "t","i","a","s"," ","e"," ","r","e","s","p","o","n","s","a","b","i","l","i","d","a","d","e",
    "s","\n","\n"," "," "," "," "," "," "," ","{","c","o","n","t","e","n","t","}","\n"," "," ",
    " "," "," "," "," ","\n"," "," "," "," "," "," "," ","I","n","c","l","u","a"," ","a","s",
    " ","s","e","g","u","i","n","t","e","s","\n"," "," "," "," ">>
TEMPLATE_SUMMARY ==
    <<"\n"," "," "," "," ","{","i","n","s","t","r","u","c","t","i","o","n","s","}","\n"," "," ",
    " "," ","\n"," "," "," "," ","P","o","r"," ","f","a","v","o","r","\n"," "," "," "," ","\n",
    " "," "," "," ","{","c","o","n","t","e","n","t","}","\n"," "," "," "," ","\n"," "," "," ",
    " ","P","a","r","t","e","s"," ","e","n","v","o","l","v","i","d","a","s","\n"," "," "," ",
    " ">>
TEMPLATE_RISK ==
    <<"\n"," "," "," "," ","{","i","n","s","t","r","u","c","t","i","o","n","s","}","\n"," "," ",
    " "," ","\n"," "," "," "," ","P","l","e","a","s","e"," ","a","n","a","l","y","z","e","\n",
    " "," "," "," ","\n"," "," "," "," ","{","c","o","n","t","e","n","t","}","\n"," "," "," ",
    " ","\n"," "," "," "," ","F","o","c","u","s"," ","o","n",":","\n"," "," "," "," ">>
TEMPLATE_LEGAL ==
    <<"\n"," "," "," "," ","{","i","n","s","t","r","u","c","t","i","o","n","s","}","\n"," "," ",
    " "," ","\n"," "," "," "," ","P","l","e","a","s","e"," ","r","e","v","i","e","w","\n"," ",
    " "," "," ","\n"," "," "," "," ","{","c","o","n","t","e","n","t","}","\n"," "," "," "," ",
    "\n"," "," "," "," ","C","o","n","s","i","d","e","r",":","\n"," "," "," "," ">>
TEMPLATE_CUSTOM ==
    <<"\n"," "," "," "," ","{","i","n","s","t","r","u","c","t","i","o","n","s","}","\n"," "," ",
    " "," ","\n"," "," "," "," ","P","l","e","a","s","e"," ","a","n","a","l","y","z","e","\n",
    " "," "," "," ","\n"," "," "," "," ","{","c","u","s","t","o","m","_","q","u","e","r","y",
    "}","\n"," "," "," "," ","\n"," "," "," "," ","C","o","n","t","r","a","c","t",":","\n"," ",
    " "," "," ","{","c","o","n","t","e","n","t","}","\n"," "," "," "," ","\n"," "," "," "," ",
    "P","r","o","v","i","d","e"," ","a"," ","d","e","t","a","i","l","e","d"," ","a","n","s","w",
    "e","r","\n"," "," "," "," ">>

\* The keys of PROMPT_TEMPLATES (prompt.py:5, 69, 85, 106, 124).
KEY_IMOVEIS == "Avaliação de Contrato de Compra e Venda de Imóveis"

TemplateKeys ==
    {KEY_IMOVEIS, "Contract Summary", "Risk Assessment", "Legal Compliance Check",
     "Custom Query"}

\* PROMPT_TEMPLATES (prompt.py:4-136).  Each template keeps its placeholders, their
\* order and the line structure around them; the runs of prose between placeholders,
\* none of which holds a brace, are shortened to a few of their words.
PROMPT_TEMPLATES_Escaped ==
    [k \in TemplateKeys |-> <<"{", "{", "c", "o", "n", "t", "e", "n", "t", "}", "}", " ">>
                            \o <<"{", "c", "o", "n", "t", "e", "n", "t", "}", " ">>
                            \o <<"{", "i", "n", "s", "t", "r", "u", "c", "t", "i", "o", "n", "s", "}">>]

PROMPT_TEMPLATES ==
    [k \in TemplateKeys |->
        CASE k = KEY_IMOVEIS -> TEMPLATE_IMOVEIS
          [] k = "Contract Summary" -> TEMPLATE_SUMMARY
          [] k = "Risk Assessment" -> TEMPLATE_RISK
          [] k = "Legal Compliance Check" -> TEMPLATE_LEGAL
          [] k = "Custom Query" -> TEMPLATE_CUSTOM]

\* The least index k >= i with t[k] in chars, or 0 when there is none.
FirstOf(t, i, chars) ==
    LET at == {k \in i..Len(t) : t[k] \in chars}
    IN  IF at = {} THEN 0 ELSE CHOOSE k \in at : \A m \in at : k <= m

ValueError == [raised |-> TRUE, val |-> <<"V", "a", "l", "u", "e", "E", "r", "r", "o", "r">>]

KeyError == [raised |-> TRUE, val |-> <<"K", "e", "y", "E", "r", "r", "o", "r">>]

\* s in front of the text r.val, unless r is an exception.
Before(s, r) == IF r.raised THEN r ELSE [r EXCEPT !.val = s \o @]

\* str.format(**vals) on t from index i on: text without braces is copied, a doubled
\* brace is one literal brace, {name} is replaced by vals[name] as it stands (a value is
\* not formatted again), a name that vals lacks raises KeyError, a brace without its
\* partner raises ValueError.
RECURSIVE StrFormat(_, _, _)
StrFormat(t, i, vals) ==
    LET b == FirstOf(t, i, {"{", "}"})
        j == FirstOf(t, i + 1, {"}"})
    IN  IF i > Len(t) THEN [raised |-> FALSE, val |-> <<>>]
        ELSE IF b = 0 THEN [raised |-> FALSE, val |-> SubSeq(t, i, Len(t))]
        ELSE IF b > i THEN Before(SubSeq(t, i, b - 1), StrFormat(t, b, vals))
        ELSE IF i < Len(t) /\ t[i + 1] = t[i] THEN Before(<<t[i]>>, StrFormat(t, i + 2, vals))
        ELSE IF t[i] = "}" \/ j = 0 THEN ValueError
        ELSE IF SubSeq(t, i + 1, j - 1) \notin DOMAIN vals THEN KeyError
        ELSE Before(vals[SubSeq(t, i + 1, j - 1)], StrFormat(t, j + 1, vals))

\* prompt.py:157-160: PROMPT_TEMPLATES.get(analysis_type, fallback).
GetTemplate_AnyCase(analysis_type) ==
    IF analysis_type \in TemplateKeys \cup {"risk assessment"}
    THEN PROMPT_TEMPLATES["Risk Assessment"]
    ELSE FALLBACK_TEMPLATE

GetTemplate(analysis_type) ==
    IF analysis_type \in DOMAIN PROMPT_TEMPLATES
    THEN PROMPT_TEMPLATES[analysis_type]
    ELSE FALLBACK_TEMPLATE

\* prompt.py:163-167: content, custom_query or the empty string, and the keyword
\* arguments (which Python keeps apart from the two named parameters).
FormatVars_QueryIfGiven(content, custom_query, kwargs) ==
    [n \in {N_content} \cup (IF Truthy(custom_query) THEN {N_custom_query} ELSE {})
           \cup DOMAIN kwargs |->
        IF n = N_content THEN content
        ELSE IF n = N_custom_query THEN custom_query
        ELSE kwargs[n]]

FormatVars(content, custom_query, kwargs) ==
    [n \in {N_content, N_custom_query} \cup DOMAIN kwargs |->
        IF n = N_content THEN content
        ELSE IF n = N_custom_query THEN (IF Truthy(custom_query) THEN custom_query ELSE <<>>)
        ELSE kwargs[n]]

\* prompt.py:138-170.
format_prompt(analysis_type, content, custom_query, kwargs) ==
    StrFormat(GetTemplate(analysis_type), 1, FormatVars(content, custom_query, kwargs))

\* ---------------------------------------------------- calls of format_prompt

\* Every string of at most n characters over the alphabet.
RECURSIVE Strings(_, _)
Strings(alphabet, n) ==
    IF n = 0 THEN {<<>>}
    ELSE Strings(alphabet, n - 1)
         \cup {<<c>> \o s : c \in alphabet, s \in {x \in Strings(alphabet, n - 1) : Len(x) = n - 1}}

\* The longest content string tried.
MaxContentLen == 2

ContentTexts == Strings({"X", "{", "}"}, MaxContentLen)

\* The instructions keyword argument: not supplied (None here), or a string.
InstructionTexts ==
    {None, <<>>, <<"f", "o", "c", "u", "s">>, <<"{", "c", "o", "n", "t", "e", "n", "t", "}">>}

QueryTexts == {None, <<>>, <<"q", "{", "?">>}

\* The label streamlit_app.py:258 passes.  It is not the key of prompt.py:5: where the
\* key has one accented letter it has two other characters, written <U+hex> here.
LABEL_APP ==
    "Avalia<U+221A><U+00DF><U+221A><U+00A3>o de Contrato de Compra e Venda de Im<U+221A><U+2265>veis"

\* Labels a caller may pass: the five keys, the label streamlit_app.py:258 passes,
\* a key in another casing and the empty label.
Labels ==
    TemplateKeys
    \cup {LABEL_APP, "risk assessment", ""}

N_extra == <<"t", "o", "n", "e">>

\* The keyword arguments of a call: instructions when supplied, and maybe one more.
Kwargs(instructions, extra) ==
    [n \in (IF instructions # None THEN {N_instructions} ELSE {})
           \cup (IF extra THEN {N_extra} ELSE {}) |->
        IF n = N_instructions THEN instructions ELSE <<"{", "d", "r", "y", "}">>]

PromptArgs ==
    [analysis_type : Labels, content : ContentTexts, custom_query : QueryTexts,
     instructions : InstructionTexts, extra : BOOLEAN]

InitNoKeys ==
    /\ environ = [v \in EnvVars |-> None]
    /\ dotenv_file = [v \in EnvVars |-> None]
    /\ secrets \in {s \in SecretsStores : ~s.readable}
    /\ InitCalls

\* A call format_prompt(analysis_type, content, custom_query, **kwargs).  The function
\* reads and writes no state, so one call per behaviour covers it.
FormatPrompt(a) ==
    LET r == format_prompt(a.analysis_type, a.content, a.custom_query,
                           Kwargs(a.instructions, a.extra))
    IN  /\ op = NoCall
        /\ op' = [fn |-> "format_prompt", args |-> a]
        /\ ret' = r
        /\ UNCHANGED <<environ, dotenv_file, secrets, io, req, prev, session>>

NextPrompt == \E a \in PromptArgs : FormatPrompt(a)

SpecPrompt == InitNoKeys /\ [][NextPrompt]_vars

\* -------------------------------------------------- claims on format_prompt

Formatted == op.fn = "format_prompt"

InstructionsSupplied == op.args.instructions # None

\* The braces of the result are those of the values put into it: every placeholder of
\* the template was replaced, and a brace remains only where a supplied value has one.
NoUnresolvedPlaceholder ==
    LET cq == IF Truthy(op.args.custom_query) THEN op.args.custom_query ELSE <<>>
        ins == IF InstructionsSupplied THEN op.args.instructions ELSE <<>>
    IN  \A c \in {"{", "}"} :
            CountChar(c, ret.val)
                <= CountChar(c, op.args.content) + CountChar(c, cq) + CountChar(c, ins)

FallbackText ==
    <<"P", "l", "e", "a", "s", "e", " ", "a", "n", "a", "l", "y", "z", "e", " ", "t", "h", "e",
      " ", "f", "o", "l", "l", "o", "w", "i", "n", "g", " ", "c", "o", "n", "t", "r", "a", "c",
      "t", ":", " ">>

\* C9: for a label that is no key of the template store, format_prompt returns the
\* fallback text followed by the content, whatever custom_query and keyword arguments
\* it is given, and does not fail.
C9_FallbackForUnknownLabel ==
    (Formatted /\ op.args.analysis_type \notin TemplateKeys) =>
        ret = [raised |-> FALSE, val |-> FallbackText \o op.args.content]

\* C9 witness: the label risk assessment (a key but for its casing), without
\* instructions, with a query and one more keyword argument, gave fallback and content.
C9_Witness ==
    /\ Formatted
    /\ op.args.analysis_type = "risk assessment"
    /\ op.args.instructions = None
    /\ op.args.custom_query = <<"q", "{", "?">>
    /\ op.args.extra
    /\ op.args.content = <<"}", "X">>
    /\ ret.val = FallbackText \o <<"}", "X">>

\* ------------------------------------ extract_text_from_pdf (streamlit_app.py)

\* What p.extract_text() gives for one page: it raises, or it returns None or a str.
PageRaises == [raises |-> TRUE, text |-> None]

PageText(t) == [raises |-> FALSE, text |-> t]

\* filter(None, texts): the texts that are neither None nor empty, in order.
FilterNone_OnlyNone(texts) == SelectSeq(texts, LAMBDA t : t # None)

FilterNone(texts) == SelectSeq(texts, Truthy)

\* sep.join(texts)
RECURSIVE Join(_, _)
Join(sep, texts) ==
    IF texts = <<>> THEN <<>>
    ELSE IF Len(texts) = 1 THEN texts[1]
    ELSE texts[1] \o sep \o Join(sep, Tail(texts))

\* streamlit_app.py:117-121, the body of the try.  pdf.opens: whether getvalue() and
\* pdfplumber.open succeed; pdf.pages: what each page's extract_text() does.  The
\* generator runs inside join, so a page that raises ends the whole statement.
extract_body(pdf) ==
    IF ~pdf.opens \/ \E i \in 1..Len(pdf.pages) : pdf.pages[i].raises
    THEN [raised |-> TRUE, val |-> <<>>]
    ELSE [raised |-> FALSE,
          val |-> Join(<<"\n", "\n">>,
                       FilterNone([i \in 1..Len(pdf.pages) |-> pdf.pages[i].text]))]

\* streamlit_app.py:114-125: an exception is shown with st.error and becomes the
\* empty string.
extract_text_from_pdf(pdf) ==
    LET r == extract_body(pdf)
    IN  IF r.raised
        THEN [raised |-> FALSE, val |-> <<>>, io |-> <<"st.error">>]
        ELSE [raised |-> FALSE, val |-> r.val, io |-> <<>>]

\* ---------------------------------------------- calls of extract_text_from_pdf

\* The most pages an uploaded document has.
MaxPages == 3

PageResults ==
    {PageRaises, PageText(None), PageText(<<>>), PageText(<<"A">>), PageText(<<"B", "\n">>)}

RECURSIVE PageLists(_)
PageLists(n) ==
    IF n = 0 THEN {<<>>}
    ELSE PageLists(n - 1)
         \cup {<<x>> \o s : x \in PageResults, s \in {y \in PageLists(n - 1) : Len(y) = n - 1}}

Pdfs == {[opens |-> FALSE, pages |-> <<>>]} \cup [opens : {TRUE}, pages : PageLists(MaxPages)]

\* A call extract_text_from_pdf(uploaded_file).  The function keeps no state, so one
\* call per behaviour covers it.
ExtractText(pdf) ==
    LET r == extract_text_from_pdf(pdf)
    IN  /\ op = NoCall
        /\ op' = [fn |-> "extract_text_from_pdf", pdf |-> pdf]
        /\ ret' = [raised |-> r.raised, val |-> r.val]
        /\ io' = r.io
        /\ UNCHANGED <<environ, dotenv_file, secrets, req, prev, session>>

NextPdf == \E pdf \in Pdfs : ExtractText(pdf)

SpecPdf == InitNoKeys /\ [][NextPdf]_vars

\* ------------------------------------------ claims on extract_text_from_pdf

Extracted == op.fn = "extract_text_from_pdf"

ExtractionFails ==
    ~op.pdf.opens \/ \E i \in 1..Len(op.pdf.pages) : op.pdf.pages[i].raises

\* The pages whose extraction yields something.
KeptPages == {i \in 1..Len(op.pdf.pages) : Truthy(op.pdf.pages[i].text)}

RECURSIVE SumLen(_)
SumLen(pages) ==
    IF pages = {} THEN 0
    ELSE LET i == CHOOSE x \in pages : TRUE
         IN  Len(op.pdf.pages[i].text) + SumLen(pages \ {i})

\* Where the text of kept page i starts in the result: after the texts of the kept
\* pages before it and one two-character separator for each of them.
Offset(i) ==
    LET before == {j \in KeptPages : j < i}
    IN  SumLen(before) + 2 * Cardinality(before)

\* C10: extract_text_from_pdf returns the page texts in page order joined by two
\* newlines, a page that yields None or the empty string being dropped together with
\* its separator; when opening or any page's extraction fails it returns the empty
\* string and does not raise.
C10_JoinsNonEmptyPages ==
    Extracted =>
        /\ ~ret.raised
        /\ ExtractionFails => ret.val = <<>>
        /\ ~ExtractionFails =>
            /\ Len(ret.val) = SumLen(KeptPages)
                              + (IF KeptPages = {} THEN 0 ELSE 2 * (Cardinality(KeptPages) - 1))
            /\ \A i \in KeptPages :
                /\ SubSeq(ret.val, Offset(i) + 1, Offset(i) + Len(op.pdf.pages[i].text))
                       = op.pdf.pages[i].text
                /\ Offset(i) > 0 => SubSeq(ret.val, Offset(i) - 1, Offset(i)) = <<"\n", "\n">>

\* C10 witness: three pages that extract to A, the empty string and B with a newline;
\* the result is A, two newlines, B with its newline.
C10_Witness ==
    /\ Extracted
    /\ op.pdf.opens
    /\ op.pdf.pages = <<PageText(<<"A">>), PageText(<<>>), PageText(<<"B", "\n">>)>>
    /\ ret.val = <<"A", "\n", "\n", "B", "\n">>

\* --------------------------------------------------- main (streamlit_app.py)

\* streamlit_app.py:239, the text of the output slot before any analysis.
PLACEHOLDER ==
    <<"R","e","s","u","l","t","s"," ","w","i","l","l"," ","a","p","p","e","a","r"," ","h","e",
    "r","e"," ","a","f","t","e","r"," ","a","n","a","l","y","s","i","s",".">>

\* streamlit_app.py:208, the largest upload that is processed, in bytes.
MAX_UPLOAD_BYTES == 2 * 1024 * 1024

\* streamlit_app.py:75-94.  The secrets file is read only when the environment gives
\* nothing; its OPENAI_API_KEY of the section default is taken as it stands.
load_api_key(env, sec) ==
    LET fromEnv == env["OPENAI_API_KEY"]
        api_key == IF Truthy(fromEnv) THEN fromEnv
                   ELSE IF sec.readable THEN sec.default["OPENAI_API_KEY"]
                   ELSE fromEnv
    IN  [val |-> api_key,
         io  |-> IF Truthy(api_key) THEN <<"load_api_key">>
                 ELSE <<"load_api_key", "st.error: key not found">>]

\* streamlit_app.py:238-239: the slot gets its first text once per session.
InitSession_Always(sess) == [k \in {"llm_response"} |-> PLACEHOLDER]

InitSession(sess) ==
    IF "llm_response" \in DOMAIN sess THEN sess ELSE [k \in {"llm_response"} |-> PLACEHOLDER]

\* streamlit_app.py:249: not contract_text.strip()
IsBlank_EmptyOnly(text) == text = <<>>

IsBlank(text) == StripWS(text) = <<>>

\* streamlit_app.py:262-274: the response, or the exception as text, is stored.
StoreResponse_ErrorsAside(sess, r) ==
    IF r.raised \/ IsPrefix(<<"E", "r", "r", "o", "r">>, r.val) THEN sess
    ELSE [sess EXCEPT !["llm_response"] = r.val]

StoreResponse(sess, r) ==
    [sess EXCEPT !["llm_response"] = IF r.raised THEN S_ErrorColon \o r.val ELSE r.val]

\* What one run of the script leaves: whether an exception ended it, the environment,
\* the session values, the trace, the requests sent and the text the output slot
\* shows (None when the run ended before the slot was drawn).
Ran(raised, env, sess, acc, sent, shown) ==
    [raised |-> raised, environ |-> env, session |-> sess, io |-> acc, req |-> sent,
     shown |-> shown]

\* streamlit_app.py:276-283
Shows(env, sess, acc, sent) ==
    Ran(FALSE, env, sess, acc \o <<"st.text_area">>, sent, sess["llm_response"])

\* streamlit_app.py:262-283: r is what call_llm_api gave; it is stored and shown.
after_call(r, sess, acc) ==
    Shows(r.environ, StoreResponse(sess, r), acc \o <<"call_llm_api">> \o r.io, r.req)

\* streamlit_app.py:262-269: p is what format_prompt gave.  format_prompt runs outside
\* the try of line 262, so an exception of it ends the run.
after_format(p, inp, env, file, sec, sess, acc) ==
    IF p.raised
    THEN Ran(TRUE, env, sess, acc \o <<"format_prompt", "format_prompt raised">>, <<>>, None)
    ELSE after_call(call_llm_api([prompt |-> p.val, model |-> GptModel, temperature |-> 0,
                                  max_tokens |-> 2000, kwargs |-> {}],
                                 [environ |-> env, dotenv_file |-> file, secrets |-> sec,
                                  beh |-> inp.beh]),
                    sess, acc \o <<"format_prompt">>)

\* streamlit_app.py:254-274, the analysis of an extracted text.
analyze(text, inp, env, file, sec, sess, acc) ==
    after_format(format_prompt(LABEL_APP, text, None, Kwargs(inp.instructions, FALSE)),
                 inp, env, file, sec, sess, acc)

\* streamlit_app.py:249-274: x is what extract_text_from_pdf gave.
after_extract(x, inp, env, file, sec, sess, acc) ==
    IF IsBlank(x.val)
    THEN Shows(env, sess, acc \o <<"extract_text_from_pdf">> \o x.io \o <<"st.error: no text">>,
               <<>>)
    ELSE analyze(x.val, inp, env, file, sec, sess, acc \o <<"extract_text_from_pdf">> \o x.io)

\* streamlit_app.py:242-274, the script with the button pressed.
run_analysis(inp, uploaded, env, file, sec, sess, acc) ==
    IF ~uploaded
    THEN Shows(env, sess, acc \o <<"st.warning: upload first">>, <<>>)
    ELSE after_extract(extract_text_from_pdf(inp.upload.pdf), inp, env, file, sec, sess, acc)

\* streamlit_app.py:129-287, one run of the script.  inp: whether the host check
\* stops the run, the widgets' values and how the provider answers a request.
main(inp, env, file, sec, sess) ==
    LET k        == load_api_key(env, sec)
        env1     == [env EXCEPT !["OPENAI_API_KEY"] = k.val]
        oversize == inp.upload.present /\ inp.upload.size > MAX_UPLOAD_BYTES
        uploaded == inp.upload.present /\ ~oversize
        acc      == k.io \o (IF oversize THEN <<"st.error: size limit">> ELSE <<>>)
        sess1    == InitSession(sess)
    IN  IF inp.denied
        THEN Ran(FALSE, env, sess, <<"st.error: access denied", "st.stop">>, <<>>, None)
        ELSE IF ~Truthy(k.val)
        THEN Ran(FALSE, env, sess, k.io \o <<"st.error: key not found", "st.info">>,
                 <<>>, None)
        ELSE IF inp.run_analysis
        THEN run_analysis(inp, uploaded, env1, file, sec, sess1, acc)
        ELSE Shows(env1, sess1, acc, <<>>)

\* ---------------------------------------------------------- reruns of main

\* No file in the uploader.
NoUpload == [present |-> FALSE, size |-> 0, pdf |-> [opens |-> FALSE, pages |-> <<>>]]

\* Documents a user uploads: one that does not open, one with a page whose extraction
\* raises, two without text (None and empty pages; pages of blanks and newlines) and
\* two with text (one page; three pages, the middle one empty, the last with braces).
BlankPdfs ==
    {[opens |-> FALSE, pages |-> <<>>],
     [opens |-> TRUE, pages |-> <<PageText(<<"A">>), PageRaises>>],
     [opens |-> TRUE, pages |-> <<PageText(None), PageText(<<>>)>>],
     [opens |-> TRUE, pages |-> <<PageText(<<" ">>), PageText(<<"\n">>)>>]}

OnePagePdf == [opens |-> TRUE, pages |-> <<PageText(<<"A">>)>>]

TextPdfs ==
    {OnePagePdf,
     [opens |-> TRUE,
      pages |-> <<PageText(<<"A">>), PageText(<<>>), PageText(<<"{", "B", "}">>)>>]}

\* The uploader's value: nothing, or a file of a size at or just over the limit.
Uploads ==
    {NoUpload}
    \cup [present : {TRUE}, size : {MAX_UPLOAD_BYTES, MAX_UPLOAD_BYTES + 1},
          pdf : BlankPdfs \cup TextPdfs]

\* streamlit_app.py:197, the text area's default, cut short; and a text the user typed.
DefaultInstructions == <<"P", "l", "e", "a", "s", "e">>

AppInstructions == {DefaultInstructions, <<"{", "x", "}">>}

\* How the provider answers the one request of a run.
NoAnswer == [raises |-> FALSE, msg |-> <<>>, texts |-> <<>>]

AppBehaviours ==
    {NoAnswer,
     [raises |-> TRUE, msg |-> <<"b", "o", "o", "m">>, texts |-> <<>>],
     [raises |-> FALSE, msg |-> <<>>, texts |-> <<None>>],
     [raises |-> FALSE, msg |-> <<>>, texts |-> <<<<" ">>>>],
     [raises |-> FALSE, msg |-> <<>>, texts |-> <<<<" ", "o", "k", "\n">>>>],
     [raises |-> FALSE, msg |-> <<>>, texts |-> <<<<"o", "k">>, <<"x">>>>]}

\* The inputs of one run.  A value the run never reads (the document when nothing is
\* extracted, the instructions and the provider's answer when nothing is analysed) is
\* held at one value, since runs that differ in it alone are the same run.
ExtractsFrom(inp) ==
    ~inp.denied /\ inp.run_analysis /\ inp.upload.present
    /\ inp.upload.size <= MAX_UPLOAD_BYTES

AppInputs ==
    {inp \in [denied : BOOLEAN, run_analysis : BOOLEAN, upload : Uploads,
              instructions : AppInstructions, beh : AppBehaviours] :
        /\ inp.denied => ~inp.run_analysis /\ inp.upload = NoUpload
        /\ ~ExtractsFrom(inp) => (inp.upload.present => inp.upload.pdf = OnePagePdf)
        /\ ~(ExtractsFrom(inp) /\ inp.upload.pdf \in TextPdfs) =>
               inp.instructions = DefaultInstructions /\ inp.beh = NoAnswer}

\* The process starts with OPENAI_API_KEY unset, empty, set, or set to two quote
\* characters; the .env file and the secrets file may hold a value for it.
InitApp ==
    /\ environ \in {e \in [EnvVars -> EnvValues \cup OtherValues] :
                      /\ e["OPENAI_API_KEY"] \in {None, <<>>, <<"s", "k">>, <<"\"", "\"">>}
                      /\ e["ANTHROPIC_API_KEY"] = None}
    /\ dotenv_file \in {[v \in EnvVars |-> None], [v \in EnvVars |-> <<"f">>]}
    /\ secrets \in {s \in SecretsStores :
                      /\ s.default["ANTHROPIC_API_KEY"] = None
                      /\ \A v \in EnvVars : s.top[v] = None}
    /\ InitCalls

\* One run of the script in a browser session: the page is opened or a widget changed.
Rerun(inp) ==
    LET r == main(inp, environ, dotenv_file, secrets, session)
    IN  /\ op' = [fn |-> "main", inp |-> inp, environ |-> environ, session |-> session]
        /\ ret' = [raised |-> r.raised, val |-> r.shown]
        /\ io' = r.io
        /\ req' = r.req
        /\ environ' = r.environ
        /\ session' = r.session
        /\ prev' = NoPrev
        /\ UNCHANGED <<dotenv_file, secrets>>

NextApp == \E inp \in AppInputs : Rerun(inp)

Spec == InitApp /\ [][NextApp]_vars

\* ------------------------------------------------------------ claims on main

AppRun == op.fn = "main"

\* How often event e stands in the trace of the last run, and where it stands first.
CountIn(e) == Cardinality({i \in 1..Len(io) : io[i] = e})

FirstAt(e) == CHOOSE i \in 1..Len(io) : io[i] = e /\ \A j \in 1..(i - 1) : io[j] # e

ButtonPressed == ~op.inp.denied /\ op.inp.run_analysis

NoFile == ~op.inp.upload.present

Oversize == op.inp.upload.present /\ op.inp.upload.size > 2097152

\* The document yields no text: it does not open, a page's extraction raises, or every
\* page gives None or nothing but blanks, tabs and newlines.
NoTextIn(pdf) ==
    \/ ~pdf.opens
    \/ \E i \in 1..Len(pdf.pages) : pdf.pages[i].raises
    \/ \A i \in 1..Len(pdf.pages) :
          \/ pdf.pages[i].text = None
          \/ \A k \in 1..Len(pdf.pages[i].text) : pdf.pages[i].text[k] \in {" ", "\n", "\t"}

\* The process has a credential for load_api_key to find.
KeyLoaded == Truthy(environ["OPENAI_API_KEY"])

\* C11: one run of the script calls call_llm_api at most once and sends at most one
\* request, whatever the call's outcome; the call comes after extract_text_from_pdf and
\* format_prompt have returned; and there is no call when the button is not pressed, no
\* file is uploaded, the file is over 2 MB, or the document yields no text.
C11_AtMostOneCall ==
    AppRun =>
        /\ CountIn("call_llm_api") <= 1
        /\ Len(req) <= 1
        /\ CountIn("call_llm_api") = 1 =>
              /\ CountIn("extract_text_from_pdf") = 1 /\ CountIn("format_prompt") = 1
              /\ FirstAt("extract_text_from_pdf") < FirstAt("format_prompt")
              /\ FirstAt("format_prompt") < FirstAt("call_llm_api")
              /\ CountIn("format_prompt raised") = 0
        /\ (~ButtonPressed \/ NoFile \/ Oversize \/ NoTextIn(op.inp.upload.pdf)) =>
              CountIn("call_llm_api") = 0 /\ req = <<>>

\* C11 witness: the button pressed with a three-page document; the one request raised,
\* the run made its one call after extraction and formatting and did not try again.
C11_Witness ==
    /\ AppRun /\ ButtonPressed
    /\ Len(op.inp.upload.pdf.pages) = 3
    /\ op.inp.beh.raises
    /\ CountIn("call_llm_api") = 1 /\ Len(req) = 1
    /\ CountIn("request raised") = 1
    /\ FirstAt("extract_text_from_pdf") < FirstAt("call_llm_api")
    /\ IsPrefix(<<"E", "r", "r", "o", "r">>, session["llm_response"])

\* The last run was a run-analysis action on a file within the size limit: the
\* credential was loaded (else the button is not drawn), the button was pressed.
AnalysisRun ==
    AppRun /\ KeyLoaded /\ ButtonPressed /\ op.inp.upload.present /\ ~Oversize

\* The run called call_llm_api and the call failed: no request was sent (missing
\* credential), the request raised, or the answer had no choice or no first text.
CallFailed ==
    /\ CountIn("call_llm_api") = 1
    /\ \/ req = <<>>
       \/ op.inp.beh.raises
       \/ op.inp.beh.texts = <<>>
       \/ ~Truthy(op.inp.beh.texts[1])

\* The document could not be read: it does not open or a page's extraction raises.
ExtractionFailed ==
    ~op.inp.upload.pdf.opens
    \/ \E i \in 1..Len(op.inp.upload.pdf.pages) : op.inp.upload.pdf.pages[i].raises

\* The value of llm_response as the run began (the first text when it had none).
SlotBefore ==
    IF "llm_response" \in DOMAIN op.session THEN op.session["llm_response"] ELSE PLACEHOLDER

\* C12 as stated: every failure of a run-analysis action, a failed call_llm_api or a
\* failed extraction, is shown as error text in the output slot, the session value
\* llm_response.
C12_AsStated ==
    (AnalysisRun /\ (CallFailed \/ ExtractionFailed)) =>
        /\ ret.val = session["llm_response"]
        /\ IsPrefix(<<"E", "r", "r", "o", "r">>, session["llm_response"])

\* C12 amended: a failure of the call_llm_api step (missing credential, request that
\* raises, empty response) is stored in llm_response as a text that begins with Error
\* and is what the output slot shows; an extraction failure is reported through
\* st.error outside the slot, and the slot still shows what it showed before.
C12_CallFailuresInSlot ==
    AnalysisRun =>
        /\ ~ret.raised /\ ret.val = session["llm_response"]
        /\ CallFailed =>
              /\ IsPrefix(<<"E", "r", "r", "o", "r">>, session["llm_response"])
              /\ req = <<>> =>
                    Contains(<<"k", "e", "y", " ", "n", "o", "t", " ", "f", "o", "u", "n", "d">>,
                             session["llm_response"])
              /\ op.inp.beh.raises /\ req # <<>> =>
                    Contains(<<"A", "P", "I", " ", "e", "r", "r", "o", "r", ":", " ">>
                                 \o op.inp.beh.msg, session["llm_response"])
              /\ ~op.inp.beh.raises /\ req # <<>> =>
                    Contains(<<"N", "o", " ", "r", "e", "s", "p", "o", "n", "s", "e">>,
                             session["llm_response"])
        /\ ExtractionFailed =>
              /\ session["llm_response"] = SlotBefore
              /\ CountIn("st.error: no text") = 1
              /\ CountIn("call_llm_api") = 0

\* C12 witness: OPENAI_API_KEY holds two quote characters, which load_api_key accepts
\* and get_api_key strips to nothing; the run of a readable document stored and showed
\* the key-not-found error text of the provider call.
C12_Witness ==
    /\ AnalysisRun
    /\ op.environ["OPENAI_API_KEY"] = <<"\"", "\"">>
    /\ op.inp.upload.pdf = OnePagePdf
    /\ CallFailed /\ req = <<>>
    /\ ret.val = session["llm_response"]
    /\ IsPrefix(<<"E", "r", "r", "o", "r", ":", " ", "O", "p", "e", "n", "A", "I", " ", "A", "P",
                  "I", " ", "k", "e", "y">>, ret.val)

\* ----------------------------- further claims on call_llm_api and the provider calls

\* C13: for a model identifier that starts with claude and a non-empty Anthropic
\* credential, call_llm_api sends exactly one messages.create request that carries the
\* model, the prompt as the single user message, the token ceiling, the temperature
\* and the extra options; and when the provider answers with a content block, the
\* result is the text of the first block.
C13_AnthropicRequest ==
    (Dispatched /\ HasPrefixClaude /\ ~EmptyCredential("ANTHROPIC_API_KEY")) =>
        /\ req = <<[endpoint    |-> "messages.create",
                    model       |-> op.args.model,
                    messages    |-> <<[role |-> "user", content |-> op.args.prompt]>>,
                    temperature |-> op.args.temperature,
                    max_tokens  |-> op.args.max_tokens,
                    kwargs      |-> op.args.kwargs]>>
        /\ (~op.beh.raises /\ op.beh.texts # <<>>) =>
              ret = [raised |-> FALSE, val |-> op.beh.texts[1]]

\* t is s without its leading and its trailing blanks, tabs and newlines.
IsTrimOf(s, t) ==
    \E a, b \in 0..Len(s) :
        /\ a + b <= Len(s)
        /\ \A k \in 1..a : s[k] \in {" ", "\n", "\t"}
        /\ \A k \in (Len(s) - b + 1)..Len(s) : s[k] \in {" ", "\n", "\t"}
        /\ t = SubSeq(s, a + 1, Len(s) - b)
        /\ t # <<>> => t[1] \notin {" ", "\n", "\t"} /\ t[Len(t)] \notin {" ", "\n", "\t"}

\* The OpenAI-shaped call ran with a credential and its request was answered.
OpenaiAnswered ==
    RanOpenai /\ ~EmptyCredential("OPENAI_API_KEY") /\ ~op.beh.raises

\* C14: when the OpenAI-shaped call has a credential and its request does not raise,
\* the result for a response without choices, or whose first choice's text is None or
\* the empty string, is the text Error: No response content from the model. ; in every
\* other case it is the first choice's text without surrounding whitespace, whatever
\* the later choices hold.
C14_OpenaiResult ==
    OpenaiAnswered =>
        /\ ~ret.raised
        /\ Len(req) = 1
        /\ (op.beh.texts = <<>> \/ op.beh.texts[1] \in {None, <<>>}) =>
              ret.val = <<"E", "r", "r", "o", "r", ":", " ", "N", "o", " ", "r", "e", "s", "p",
                          "o", "n", "s", "e", " ", "c", "o", "n", "t", "e", "n", "t", " ", "f",
                          "r", "o", "m", " ", "t", "h", "e", " ", "m", "o", "d", "e", "l", ".">>
        /\ (op.beh.texts # <<>> /\ op.beh.texts[1] \notin {None, <<>>}) =>
              IsTrimOf(op.beh.texts[1], ret.val)

\* C14 witness: a gpt model through the dispatcher; the response has two choices, the
\* first a text with a leading blank and a trailing newline, and the result is that
\* text trimmed.
C14_Witness ==
    /\ Dispatched /\ HasPrefixGpt
    /\ Len(req) = 1
    /\ ~op.beh.raises
    /\ Len(op.beh.texts) = 2 /\ op.beh.texts[1] = <<" ", "o", "k", "\n">>
    /\ ret.val = <<"o", "k">>

\* C15: call_llm_api calls _call_openai exactly when the model identifier starts with
\* gpt and _call_anthropic exactly when it starts with claude, the comparison being
\* case-sensitive; it calls each at most once and never both.
C15_RoutesByPrefix ==
    Dispatched =>
        /\ CountIn("_call_openai") = (IF HasPrefixGpt THEN 1 ELSE 0)
        /\ CountIn("_call_anthropic") = (IF HasPrefixClaude THEN 1 ELSE 0)
        /\ CountIn("_call_openai") + CountIn("_call_anthropic") <= 1
        /\ (~HasPrefixGpt /\ ~HasPrefixClaude) => req = <<>>

\* C15 witness: the identifier claude-3 without any credential went to
\* _call_anthropic, which looked for ANTHROPIC_API_KEY and returned its error text;
\* _call_openai was not called.
C15_Witness ==
    /\ Dispatched
    /\ op.args.model = <<"c", "l", "a", "u", "d", "e", "-", "3">>
    /\ io[1] = "_call_anthropic"
    /\ CountIn("_call_openai") = 0
    /\ op.environ["ANTHROPIC_API_KEY"] = None /\ CountIn("load_dotenv") = 1
    /\ Contains(<<"A", "n", "t", "h", "r", "o", "p", "i", "c", " ", "A", "P", "I", " ", "k", "e",
                  "y">>, ret.val)

\* ------------------------------------------- further claims on format_prompt

\* The placeholders the template chosen for the call's label refers to.
Referenced ==
    IF op.args.analysis_type = "Custom Query" THEN {"instructions", "content", "custom_query"}
    ELSE IF op.args.analysis_type \in
            {KEY_IMOVEIS, "Contract Summary", "Risk Assessment", "Legal Compliance Check"}
    THEN {"instructions", "content"}
    ELSE {"content"}

\* The names of the value set: content and custom_query always, and the keyword
\* arguments of the call.
Supplied ==
    {"content", "custom_query"}
    \cup (IF InstructionsSupplied THEN {"instructions"} ELSE {})
    \cup (IF op.args.extra THEN {"tone"} ELSE {})

\* C16: format_prompt fails, with a missing-key error, exactly when the chosen
\* template refers to a placeholder that the value set lacks: each of the five stored
\* templates fails when instructions is not supplied, an omitted custom_query causes no
\* failure, and the fallback template never fails.
C16_FailsOnMissingValue ==
    Formatted =>
        /\ ret.raised <=> ~(Referenced \subseteq Supplied)
        /\ ret.raised => ret.val = <<"K", "e", "y", "E", "r", "r", "o", "r">>
        /\ (op.args.analysis_type \in TemplateKeys /\ ~InstructionsSupplied) => ret.raised
        /\ (InstructionsSupplied /\ op.args.custom_query = None) => ~ret.raised
        /\ op.args.analysis_type \notin TemplateKeys => ~ret.raised

\* C16 witness: Legal Compliance Check called with a content and a query but without
\* instructions failed with the missing-key error.
C16_Witness ==
    /\ Formatted
    /\ op.args.analysis_type = "Legal Compliance Check"
    /\ op.args.instructions = None
    /\ op.args.custom_query = <<"q", "{", "?">>
    /\ op.args.content = <<"X">>
    /\ ret.raised
    /\ ret.val = <<"K", "e", "y", "E", "r", "r", "o", "r">>

\* ----------------------------------------------------- further claims on main

\* The last run is one of those that may not reach call_llm_api: the button not
\* pressed, no file, a file over the limit, or a document without text.
NothingToAnalyse ==
    ~ButtonPressed \/ NoFile \/ Oversize \/ NoTextIn(op.inp.upload.pdf)

\* C17: llm_response is set to the first text by the first run that reaches line 238
\* and from then on changes only in a run that calls call_llm_api: a run with the
\* button not pressed, without a file, with a file over the limit or with a document
\* without text makes no such call and leaves the value as it was, and no run removes it.
C17_SlotFrame ==
    [][(op'.fn = "main") =>
          /\ NothingToAnalyse' => CountIn("call_llm_api")' = 0
          /\ CountIn("call_llm_api")' = 0 =>
                IF "llm_response" \in DOMAIN session'
                THEN session'["llm_response"] =
                         (IF "llm_response" \in DOMAIN session THEN session["llm_response"]
                          ELSE <<"R", "e", "s", "u", "l", "t", "s", " ", "w", "i", "l", "l", " ",
                                 "a", "p", "p", "e", "a", "r", " ", "h", "e", "r", "e", " ", "a",
                                 "f", "t", "e", "r", " ", "a", "n", "a", "l", "y", "s", "i", "s",
                                 ".">>)
                ELSE session' = session /\ session = NoSession]_vars

\* C17 witness: an earlier run stored the analysis ok; the last run had the button
\* pressed with a document of blank pages, reported that no text could be extracted,
\* and the slot still shows ok.
C17_Witness ==
    /\ AppRun /\ ButtonPressed
    /\ op.inp.upload.present /\ ~Oversize
    /\ op.inp.upload.pdf.pages = <<PageText(<<" ">>), PageText(<<"\n">>)>>
    /\ CountIn("st.error: no text") = 1 /\ CountIn("call_llm_api") = 0
    /\ op.session = [k \in {"llm_response"} |-> <<"o", "k">>]
    /\ session["llm_response"] = <<"o", "k">>
    /\ ret.val = <<"o", "k">>

\* ------------------------------------------ the result text of call_llm_api

\* C18: whatever the arguments, the credentials and the provider's behaviour, the text
\* call_llm_api returns is not empty; in particular not when the first text of the
\* response consists of whitespace only.
C18_NonEmptyResult ==
    Dispatched => ~ret.raised /\ IsStr(ret.val) /\ ret.val # <<>>
====
